---- MODULE Spec2Model ----
(***************************************************************************)
(* lantern-lite: the s3config fetcher (src/s3config/s3config.go), the      *)
(* fallback registry and the local proxy handler (src/proxy/local.go) and  *)
(* the byte splice (src/proxy/proxy.go), as one state machine.             *)
(*                                                                         *)
(* Goroutines: fetch (started once by s3config.init), the caller of        *)
(* doUpdateFallbacks (StartLocal first, then updateFallbacks), the         *)
(* handleLocalRequest of a request, the two copy tasks of its pipe.        *)
(* log.Fatalf and a run-time panic end the whole process (halted).         *)
(*                                                                         *)
(* Handlers share nothing but the registry, which they read under its      *)
(* mutex, so requests are served one after another: the next is accepted   *)
(* once the session of the previous one is over.                           *)
(***************************************************************************)
EXTENDS Integers, Sequences, FiniteSets, TLC

\* ------------------------------------------------------------------ bounds
\* Extra invocations of fetch() made by a driver (DriverSpec only).
MaxCalls == 1
\* Requests the local proxy serves.
MaxRequests == 2
\* Bytes each peer of a piped session sends at most before its end-of-stream.
MaxBytes == 1

\* --------------------------------------------------------- program constants
\* s3config.go:28-29, the poll bounds before any document is fetched.
InitMinPoll == 5
InitMaxPoll == 15
\* s3config.go:56, make(chan S3Config): an unbuffered channel.
ChanCap == 0
\* proxy.go:13
StatusBadGateway == 502

\* ---------------------------------------------------------------- documents
\* Certificate text: whether pem.Decode finds a block, and the DER in it.
GoodCert(id) == [pem |-> TRUE, der |-> id]
NoPemCert == [pem |-> FALSE, der |-> ""]
BadDerCert == [pem |-> TRUE, der |-> "garbage"]

NoCert == "nil"

\* A *FallbackConfig as json.Unmarshal leaves it (X509Cert not yet set); a JSON
\* null in the fallbacks array is a nil pointer.
FallbackConfig(ip, port, tok, cert) ==
    [nil |-> FALSE, Ip |-> ip, Port |-> port, AuthToken |-> tok, Cert |-> cert,
     X509Cert |-> NoCert]
NilFallbackConfig == [nil |-> TRUE]

S3Config(serial, mn, mx, fbs) ==
    [SerialNo |-> serial, MinPoll |-> mn, MaxPoll |-> mx, Fallbacks |-> fbs]
\* config := S3Config{}
ZeroS3Config == S3Config(0, 0, 0, <<>>)

DocA == S3Config(1, 1, 3, <<FallbackConfig("10.0.0.1", "443", "tokA", GoodCert("certA"))>>)
DocB == S3Config(2, 2, 4, <<FallbackConfig("10.0.0.2", "443", "tokB1", GoodCert("certB1")),
                            FallbackConfig("10.0.0.3", "8443", "tokB2", GoodCert("certB2"))>>)
DocEmpty == S3Config(3, 1, 3, <<>>)
\* A well-formed entry followed by one whose text holds no PEM block.
DocNoPem == S3Config(4, 1, 2, <<FallbackConfig("10.0.0.4", "443", "tokC1", GoodCert("certC1")),
                               FallbackConfig("10.0.0.5", "443", "tokC2", NoPemCert)>>)
\* A PEM block whose bytes are no certificate; minpoll is negative.
DocBadDer == S3Config(5, -1, 1, <<FallbackConfig("10.0.0.6", "443", "tokD", BadDerCert)>>)
\* minpoll = maxpoll.
DocBadPoll == S3Config(6, 3, 3, <<FallbackConfig("10.0.0.7", "443", "tokE", GoodCert("certE"))>>)
\* "fallbacks": [null]
DocNull == S3Config(7, 1, 3, <<NilFallbackConfig>>)

Docs == {DocA, DocB, DocEmpty, DocNoPem, DocBadDer, DocBadPoll, DocNull}

\* What one GET of the configuration URL can come to (s3config.go:69-82).
TransportErrors == {"get error", "read error", "status not 200", "json error"}

\* -------------------------------------------------------------- s3config.go
\* parseCert, s3config.go:116-125.
parseCert(certData) ==
    IF ~certData.pem
    THEN [err |-> "No PEM encoded certificate found", cert |-> NoCert]
    ELSE IF certData.der = "garbage"
         THEN [err |-> "x509: malformed certificate", cert |-> NoCert]
         ELSE [err |-> "nil", cert |-> certData.der]

\* The loop of s3config.go:87-96 from entry i on: it stops at the first
\* certificate that fails, and dereferences every entry it visits.
RECURSIVE ValidateFrom(_, _)
ValidateFrom(fbs, i) ==
    IF i > Len(fbs)
    THEN [certFailure |-> FALSE, nilDeref |-> FALSE, fbs |-> fbs]
    ELSE IF fbs[i].nil
         THEN [certFailure |-> FALSE, nilDeref |-> TRUE, fbs |-> fbs]
         ELSE LET r == parseCert(fbs[i].Cert) IN
              IF r.err # "nil"
              THEN [certFailure |-> TRUE, nilDeref |-> FALSE, fbs |-> fbs]
              ELSE ValidateFrom([fbs EXCEPT ![i].X509Cert = r.cert], i + 1)

\* s3config.go:97, if !certFailure { ConfigUpdate <- config }
ShouldPublishAlways(certFailure) == TRUE
ShouldPublish(certFailure) == ~certFailure

\* s3config.go:103-104: what rand.Int(rand.Reader, max) can return, a value
\* in [0, max).
RandIntInclusive(max) == 0..max
RandInt(max) == 0..(max - 1)

\* A send on ConfigUpdate that meets no receiver completes only if the buffer
\* has room: make(chan S3Config) gives it none (s3config.go:56).
ChanHasRoomOneSlot(buf) == Len(buf) < ChanCap + 1
ChanHasRoom(buf) == Len(buf) < ChanCap

\* ----------------------------------------------------------------- local.go
NilTlsConfig == [nil |-> TRUE]
\* local.go:73-78
TlsConfig(x509cert) == [nil |-> FALSE, RootCAs |-> {x509cert}, InsecureSkipVerify |-> TRUE]

\* The zero Fallback that make([]Fallback, n) fills the slice with (local.go:71).
ZeroFallback == [Ip |-> "", Port |-> "", AuthToken |-> "", X509Cert |-> NoCert,
                 tlsConfig |-> NilTlsConfig]
\* local.go:79-82
Fallback(fc) == [Ip |-> fc.Ip, Port |-> fc.Port, AuthToken |-> fc.AuthToken,
                 X509Cert |-> fc.X509Cert, tlsConfig |-> TlsConfig(fc.X509Cert)]

\* sync.Mutex.Lock returns only when nobody holds the mutex (local.go:69, 92).
\* Its holder: nobody, doUpdateFallbacks, or the handler's getFallback.
MutexAcquirableAlways(m) == TRUE
MutexAcquirable(m) == m = "free"

\* local.go:91-100: the body of getFallback once it holds the mutex.
getFallbackUnchecked(fbs) ==
    [fatal |-> FALSE, fallback |-> IF Len(fbs) = 0 THEN ZeroFallback ELSE fbs[1]]
getFallbackLast(fbs) ==
    IF Len(fbs) = 0
    THEN [fatal |-> TRUE, fallback |-> ZeroFallback]
    ELSE [fatal |-> FALSE, fallback |-> fbs[Len(fbs)]]
getFallback(fbs) ==
    IF Len(fbs) = 0
    THEN [fatal |-> TRUE, fallback |-> ZeroFallback]
    ELSE [fatal |-> FALSE, fallback |-> fbs[1]]

\* local.go:124: fallback is a copy of the registry's entry; the handler reads
\* the copy at local.go:125, 127 and 141, never the registry.
SessionFallbackLive(local, registry) ==
    IF Len(registry) = 0 THEN local ELSE registry[1]
SessionFallback(local, registry) == local

\* local.go:125
UpstreamAddr(fb) == <<fb.Ip, ":", fb.Port>>

\* The n-th request as the client sent it, and its URL.
ReqURL(n) == <<"http://example.com/", n>>
ClientRequest(n) == [URL |-> ReqURL(n), Header |-> {}]

\* http.Header.Set: the one value of the key after it.
HeaderSet(h, key, value) == {kv \in h : kv[1] # key} \cup {<<key, value>>}

\* What is written to connOut: the request (local.go:142) or a spliced byte
\* (proxy.go:20).
RequestItem(req) == [kind |-> "request", req |-> req]
ByteItem == [kind |-> "byte"]

\* local.go:36-37
x_lantern_auth_token == "X-LANTERN-AUTH-TOKEN"
x_random_length_header == "X_LANTERN-RANDOM-LENGTH-HEADER"

\* local.go:140-141
InjectHeadersNoAuth(req, str, fb) ==
    [req EXCEPT !.Header = HeaderSet(req.Header, x_random_length_header, str)]
InjectHeaders(req, str, fb) ==
    [req EXCEPT !.Header = HeaderSet(HeaderSet(req.Header, x_random_length_header, str),
                                     x_lantern_auth_token, fb.AuthToken)]

\* What randomLengthString can return without an error (local.go:153-166): the
\* base64 text of 0 or 3 random bytes.
PadStrings == {"", "cGFk"}

\* The http.ResponseWriter of a request nobody has answered yet.
NewResponse == [status |-> 0, body |-> <<>>, hijacked |-> FALSE]

\* proxy.go:11-15. Once the connection is hijacked the server's ResponseWriter
\* refuses WriteHeader and Write (http.ErrHijacked) and nothing reaches the client.
respondInternalError(rw, url, msg) ==
    IF rw.hijacked THEN rw
    ELSE [rw EXCEPT !.status = 500, !.body = <<"Bad Gateway: ", url, " - ", msg>>]
respondBadGateway(rw, url, msg) ==
    IF rw.hijacked THEN rw
    ELSE [rw EXCEPT !.status = StatusBadGateway, !.body = <<"Bad Gateway: ", url, " - ", msg>>]

NoConn == [state |-> "none", addr |-> <<>>, tlsConfig |-> NilTlsConfig]

VARIABLES
    \* s3config
    fpc,            \* where fetch() is
    config,         \* fetch's local config
    minPoll,        \* s3config.go:28
    maxPoll,        \* s3config.go:29
    interval,       \* the minutes fetch sleeps
    calls,          \* invocations of fetch() so far
    iterStart,      \* minPoll, maxPoll and Len(published) when this fetch() began
    chanBuf,        \* ConfigUpdate's buffer
    \* proxy registry
    cpc,            \* where doUpdateFallbacks is
    cconfig,        \* doUpdateFallbacks's local config
    ci,             \* the loop index of local.go:72
    fallbacks,      \* local.go:31
    fallbacksMutex, \* local.go:32: "free", or its holder
    listener,       \* "none" until StartLocal starts runLocal, then "starting", "up"
    regBefore,      \* fallbacks as doUpdateFallbacks found it at its last Lock
    halted,         \* "no", or why the process ended
    \* the session of the current request (one handleLocalRequest)
    requests,       \* requests accepted so far
    spc,            \* where the session is
    fallback,       \* local.go:124
    rw,             \* resp: what the client has been answered, and whether hijacked
    connOut,        \* local.go:127
    str,            \* local.go:135
    upstream,       \* what has been written to connOut, in order
    toClient,       \* bytes the splice has written to connIn
    fromClient,     \* bytes the splice has read from connIn
    fromUpstream,   \* bytes the splice has read from connOut
    taskUp,         \* proxy.go:18-21: "none", "run", "done"
    taskDown,       \* proxy.go:22-25
    connInClosed,   \* connIn.Close() was called
    \* history
    published,      \* documents whose send on ConfigUpdate has completed
    applied,        \* documents whose doUpdateFallbacks has returned
    dialed,         \* the (address, tls config) of every tls.Dial of the session
    seenApplied,    \* Len(applied) when the session's getFallback read the registry
    trace           \* the states the session went through

fetchVars == <<fpc, config, minPoll, maxPoll, interval, calls, iterStart>>
regVars == <<cpc, cconfig, ci, fallbacks, fallbacksMutex, listener, regBefore>>
sessVars == <<requests, spc, fallback, rw, connOut, str, upstream>>
pipeVars == <<toClient, fromClient, fromUpstream, taskUp, taskDown, connInClosed>>
histVars == <<published, applied>>
sessHist == <<dialed, seenApplied, trace>>
vars == <<fetchVars, chanBuf, regVars, halted, sessVars, pipeVars, histVars, sessHist>>

Running == halted = "no"

Init ==
    /\ fpc = "get" /\ config = ZeroS3Config
    /\ minPoll = InitMinPoll /\ maxPoll = InitMaxPoll
    /\ interval = 0 /\ calls = 1
    /\ iterStart = [minPoll |-> InitMinPoll, maxPoll |-> InitMaxPoll, published |-> 0]
    /\ chanBuf = <<>>
    /\ cpc = "recv" /\ cconfig = ZeroS3Config /\ ci = 0
    /\ fallbacks = <<>> /\ fallbacksMutex = "free"
    /\ listener = "none"
    /\ regBefore = <<>>
    /\ halted = "no"
    /\ requests = 0
    /\ spc = "Idle"
    /\ fallback = ZeroFallback
    /\ rw = NewResponse
    /\ connOut = NoConn
    /\ str = ""
    /\ upstream = <<>>
    /\ toClient = 0 /\ fromClient = 0 /\ fromUpstream = 0
    /\ taskUp = "none" /\ taskDown = "none"
    /\ connInClosed = FALSE
    /\ published = <<>> /\ applied = <<>>
    /\ dialed = <<>>
    /\ seenApplied = 0
    /\ trace = <<>>

proxyVars == <<regVars, sessVars, pipeVars, sessHist>>

\* s3config.go:69-84: the GET fails, the body is unreadable, the status is not
\* 200 or the body is no JSON: logged, nothing else. Every assignment and the
\* send are in the else branch of the last error check (s3config.go:84-100).
FetchErrorFallsThrough ==
    /\ Running /\ fpc = "get"
    /\ \E e \in TransportErrors : fpc' = "send"
    /\ minPoll' = ZeroS3Config.MinPoll
    /\ maxPoll' = ZeroS3Config.MaxPoll
    /\ UNCHANGED <<config, interval, calls, iterStart>>
    /\ UNCHANGED <<chanBuf, proxyVars, halted, histVars>>
FetchError ==
    /\ Running /\ fpc = "get"
    /\ \E e \in TransportErrors : fpc' = "jitter"
    /\ UNCHANGED <<config, minPoll, maxPoll, interval, calls, iterStart>>
    /\ UNCHANGED <<chanBuf, proxyVars, halted, histVars>>

\* s3config.go:81-99: a document is decoded.
FetchDecoded ==
    /\ Running /\ fpc = "get"
    /\ \E doc \in Docs :
         LET v == ValidateFrom(doc.Fallbacks, 1)
             validated == [doc EXCEPT !.Fallbacks = v.fbs] IN
         /\ minPoll' = doc.MinPoll
         /\ maxPoll' = doc.MaxPoll
         /\ IF v.nilDeref
            THEN /\ halted' = "panic: nil pointer dereference"
                 /\ UNCHANGED <<fpc, config>>
            ELSE /\ halted' = halted
                 /\ config' = validated
                 /\ fpc' = IF ShouldPublish(v.certFailure) THEN "send" ELSE "jitter"
    /\ UNCHANGED <<interval, calls, iterStart, chanBuf, proxyVars, histVars>>

\* s3config.go:98 and local.go:68: the send and the receive on ConfigUpdate.
\* A buffered item is received first; a sender meets a waiting receiver; with
\* room in the buffer (never, at capacity 0) the sender leaves its item there.
ConfigUpdate ==
    /\ Running
    /\ IF cpc = "recv" /\ chanBuf # <<>>
       THEN /\ cconfig' = Head(chanBuf) /\ chanBuf' = Tail(chanBuf)
            /\ cpc' = "lock"
            /\ UNCHANGED <<fpc, published>>
       ELSE /\ fpc = "send"
            /\ fpc' = "jitter"
            /\ published' = Append(published, config)
            /\ IF cpc = "recv"
               THEN cconfig' = config /\ cpc' = "lock" /\ UNCHANGED chanBuf
               ELSE /\ ChanHasRoom(chanBuf)
                    /\ chanBuf' = Append(chanBuf, config)
                    /\ UNCHANGED <<cconfig, cpc>>
    /\ UNCHANGED <<config, minPoll, maxPoll, interval, calls, iterStart>>
    /\ UNCHANGED <<ci, fallbacks, fallbacksMutex, listener, regBefore, halted, applied>>
    /\ UNCHANGED <<sessVars, pipeVars, sessHist>>

\* s3config.go:104-108: rand.Int panics on a bound <= 0, and its error is fatal.
FetchJitter ==
    /\ Running /\ fpc = "jitter"
    /\ IF maxPoll - minPoll <= 0
       THEN /\ halted' = "panic: crypto/rand: argument to Int is <= 0"
            /\ UNCHANGED <<fpc, interval>>
       ELSE \/ /\ halted' = "fatal: Unable to update poll interval"
               /\ UNCHANGED <<fpc, interval>>
            \/ /\ \E randomVal \in RandInt(maxPoll - minPoll) :
                    interval' = randomVal + minPoll
               /\ fpc' = "sleep"
               /\ UNCHANGED halted
    /\ UNCHANGED <<config, minPoll, maxPoll, calls, iterStart>>
    /\ UNCHANGED <<chanBuf, proxyVars, histVars>>

\* s3config.go:109-111: the sleep ends and fetch returns.
FetchReturn ==
    /\ Running /\ fpc = "sleep"
    /\ fpc' = "returned"
    /\ interval' = 0
    /\ UNCHANGED <<config, minPoll, maxPoll, calls, iterStart>>
    /\ UNCHANGED <<chanBuf, proxyVars, halted, histVars>>

\* A driver calls fetch() again once it has returned (nothing in the program does).
CallFetch ==
    /\ Running /\ fpc = "returned"
    /\ calls < 1 + MaxCalls
    /\ calls' = calls + 1
    /\ fpc' = "get"
    /\ config' = ZeroS3Config
    /\ iterStart' = [minPoll |-> minPoll, maxPoll |-> maxPoll, published |-> Len(published)]
    /\ UNCHANGED <<minPoll, maxPoll, interval>>
    /\ UNCHANGED <<chanBuf, proxyVars, halted, histVars>>

\* local.go:69
UpdateLock ==
    /\ Running /\ cpc = "lock"
    /\ MutexAcquirable(fallbacksMutex)
    /\ fallbacksMutex' = "doUpdateFallbacks"
    /\ cpc' = "make"
    /\ regBefore' = fallbacks
    /\ UNCHANGED <<cconfig, ci, fallbacks, listener>>
    /\ UNCHANGED <<fetchVars, chanBuf, halted, histVars, sessVars, pipeVars, sessHist>>

\* local.go:71, fallbacks = make([]Fallback, len(config.Fallbacks)): a new
\* slice takes the place of the old one.
UpdateMakeAppend ==
    /\ Running /\ cpc = "make"
    /\ fallbacks' = fallbacks \o [i \in 1..Len(cconfig.Fallbacks) |-> ZeroFallback]
    /\ ci' = 1
    /\ cpc' = "fill"
    /\ UNCHANGED <<cconfig, fallbacksMutex, listener, regBefore>>
    /\ UNCHANGED <<fetchVars, chanBuf, halted, histVars, sessVars, pipeVars, sessHist>>
UpdateMake ==
    /\ Running /\ cpc = "make"
    /\ fallbacks' = [i \in 1..Len(cconfig.Fallbacks) |-> ZeroFallback]
    /\ ci' = 1
    /\ cpc' = "fill"
    /\ UNCHANGED <<cconfig, fallbacksMutex, listener, regBefore>>
    /\ UNCHANGED <<fetchVars, chanBuf, halted, histVars, sessVars, pipeVars, sessHist>>

\* local.go:72-83, one iteration.
UpdateFill ==
    /\ Running /\ cpc = "fill"
    /\ ci <= Len(cconfig.Fallbacks)
    /\ fallbacks' = [fallbacks EXCEPT ![ci] = Fallback(cconfig.Fallbacks[ci])]
    /\ ci' = ci + 1
    /\ UNCHANGED <<cpc, cconfig, fallbacksMutex, listener, regBefore>>
    /\ UNCHANGED <<fetchVars, chanBuf, halted, histVars, sessVars, pipeVars, sessHist>>

\* local.go:70, 84: the deferred Unlock, and the return. The first return is
\* to StartLocal, which starts updateFallbacks and runLocal (local.go:45-52);
\* every later one is to the loop of updateFallbacks (local.go:59-61).
UpdateUnlock ==
    /\ Running /\ cpc = "fill"
    /\ ci > Len(cconfig.Fallbacks)
    /\ fallbacksMutex' = "free"
    /\ applied' = Append(applied, cconfig)
    /\ cpc' = "recv"
    /\ ci' = 0
    /\ listener' = IF listener = "none" THEN "starting" ELSE listener
    /\ UNCHANGED <<cconfig, fallbacks, regBefore>>
    /\ UNCHANGED <<fetchVars, chanBuf, halted, published>>
    /\ UNCHANGED <<sessVars, pipeVars, sessHist>>

\* local.go:105-116: ListenAndServe either serves or fails at once. StartLocal
\* starts runLocal after its own doUpdateFallbacks has returned (local.go:45-52).
RunLocalBeforeUpdate ==
    /\ Running /\ listener \in {"none", "starting"}
    /\ \/ listener' = "up" /\ UNCHANGED halted
       \/ halted' = "fatal: Unable to start local proxy" /\ UNCHANGED listener
    /\ UNCHANGED <<cpc, cconfig, ci, fallbacks, fallbacksMutex, regBefore>>
    /\ UNCHANGED <<fetchVars, chanBuf, histVars, sessVars, pipeVars, sessHist>>
RunLocal ==
    /\ Running /\ listener = "starting"
    /\ \/ listener' = "up" /\ UNCHANGED halted
       \/ halted' = "fatal: Unable to start local proxy" /\ UNCHANGED listener
    /\ UNCHANGED <<cpc, cconfig, ci, fallbacks, fallbacksMutex, regBefore>>
    /\ UNCHANGED <<fetchVars, chanBuf, histVars, sessVars, pipeVars, sessHist>>

\* ------------------------------------------------------- handleLocalRequest
Goto(state) ==
    /\ spc' = state
    /\ trace' = Append(trace, state)

\* The server accepts a request and calls the handler (local.go:108, 123).
Accept ==
    /\ Running /\ listener = "up"
    /\ spc \in {"Idle", "Closed", "Failed"}
    /\ requests < MaxRequests
    /\ requests' = requests + 1
    /\ spc' = "Selecting" /\ trace' = <<"Selecting">>
    /\ fallback' = ZeroFallback /\ rw' = NewResponse /\ connOut' = NoConn
    /\ str' = "" /\ upstream' = <<>>
    /\ toClient' = 0 /\ fromClient' = 0 /\ fromUpstream' = 0
    /\ taskUp' = "none" /\ taskDown' = "none" /\ connInClosed' = FALSE
    /\ dialed' = <<>> /\ seenApplied' = 0
    /\ UNCHANGED <<fetchVars, chanBuf, regVars, halted, histVars>>

\* local.go:92
GetFallbackLock ==
    /\ Running /\ spc = "Selecting"
    /\ fallbacksMutex # "getFallback"
    /\ MutexAcquirable(fallbacksMutex)
    /\ fallbacksMutex' = "getFallback"
    /\ UNCHANGED <<cpc, cconfig, ci, fallbacks, listener, regBefore>>
    /\ UNCHANGED <<fetchVars, chanBuf, halted, sessVars, pipeVars, histVars, sessHist>>

\* local.go:93-99: the check, the copy of fallbacks[0] and the deferred Unlock.
GetFallbackReturn ==
    /\ Running /\ spc = "Selecting"
    /\ fallbacksMutex = "getFallback"
    /\ LET r == getFallback(fallbacks) IN
       IF r.fatal
       THEN /\ halted' = "fatal: No fallback configured!"
            /\ UNCHANGED <<fallbacksMutex, fallback, spc, trace, seenApplied>>
       ELSE /\ fallback' = r.fallback
            /\ seenApplied' = Len(applied)
            /\ fallbacksMutex' = "free"
            /\ Goto("Dialing")
            /\ UNCHANGED halted
    /\ UNCHANGED <<cpc, cconfig, ci, fallbacks, listener, regBefore>>
    /\ UNCHANGED <<requests, rw, connOut, str, upstream, dialed>>
    /\ UNCHANGED <<fetchVars, chanBuf, pipeVars, histVars>>

\* local.go:125-130: tls.Dial fails (502 and return) or gives connOut.
Dial ==
    /\ Running /\ spc = "Dialing"
    /\ LET fb == SessionFallback(fallback, fallbacks)
           upstreamAddr == UpstreamAddr(fb) IN
       /\ dialed' = Append(dialed, <<upstreamAddr, fb.tlsConfig>>)
       /\ \/ /\ rw' = respondBadGateway(rw, ReqURL(requests),
                          "Unable to open socket to upstream proxy")
             /\ Goto("Failed")
             /\ UNCHANGED connOut
          \/ /\ connOut' = [state |-> "open", addr |-> upstreamAddr,
                            tlsConfig |-> fb.tlsConfig]
             /\ Goto("Hijacking")
             /\ UNCHANGED rw
    /\ UNCHANGED <<requests, fallback, str, upstream, seenApplied>>
    /\ UNCHANGED <<fetchVars, chanBuf, regVars, halted, pipeVars, histVars>>

\* local.go:131-134: Hijack fails (502 and return) or detaches the connection.
Hijack ==
    /\ Running /\ spc = "Hijacking"
    /\ \/ /\ rw' = respondBadGateway(rw, ReqURL(requests),
                       "Unable to access underlying connection from client")
          /\ Goto("Failed")
       \/ /\ rw' = [rw EXCEPT !.hijacked = TRUE]
          /\ Goto("Padding")
    /\ UNCHANGED <<requests, fallback, connOut, str, upstream, dialed, seenApplied>>
    /\ UNCHANGED <<fetchVars, chanBuf, regVars, halted, pipeVars, histVars>>

\* local.go:135-138: randomLengthString fails (502 and return) or gives str.
Pad ==
    /\ Running /\ spc = "Padding"
    /\ \/ /\ rw' = respondBadGateway(rw, ReqURL(requests),
                       "Unable to generate random length header")
          /\ Goto("Failed")
          /\ UNCHANGED str
       \/ /\ \E x \in PadStrings : str' = x
          /\ Goto("Forwarding")
          /\ UNCHANGED rw
    /\ UNCHANGED <<requests, fallback, connOut, upstream, dialed, seenApplied>>
    /\ UNCHANGED <<fetchVars, chanBuf, regVars, halted, pipeVars, histVars>>

\* local.go:140-142: the two headers, then the request written to connOut.
Forward ==
    /\ Running /\ spc = "Forwarding"
    /\ LET fb == SessionFallback(fallback, fallbacks)
           req == InjectHeaders(ClientRequest(requests), str, fb) IN
       upstream' = Append(upstream, RequestItem(req))
    /\ Goto("Piping")
    /\ UNCHANGED <<requests, fallback, rw, connOut, str, dialed, seenApplied>>
    /\ UNCHANGED <<fetchVars, chanBuf, regVars, halted, pipeVars, histVars>>

\* ------------------------------------------------------------------ proxy.go
\* local.go:144 and proxy.go:17-26: pipe starts the two copy tasks and the
\* handler returns.
Pipe ==
    /\ Running /\ spc = "Piping" /\ taskUp = "none"
    /\ taskUp' = "run"
    /\ taskDown' = "run"
    /\ UNCHANGED <<toClient, fromClient, fromUpstream, connInClosed>>
    /\ UNCHANGED <<fetchVars, chanBuf, regVars, halted, sessVars, histVars, sessHist>>

\* The session is over once both copy tasks are.
AfterTask(other) ==
    IF other = "done"
    THEN Goto("Closed")
    ELSE UNCHANGED <<spc, trace>>

\* proxy.go:20, io.Copy(connOut, connIn): one byte read from the client and
\* written to the upstream; a write to a closed connOut ends the copy, and the
\* deferred connIn.Close() runs.
CopyUp ==
    /\ Running /\ taskUp = "run"
    /\ fromClient < MaxBytes
    /\ fromClient' = fromClient + 1
    /\ IF connOut.state = "open"
       THEN /\ upstream' = Append(upstream, ByteItem)
            /\ UNCHANGED <<taskUp, connInClosed, spc, trace>>
       ELSE /\ taskUp' = "done"
            /\ connInClosed' = TRUE
            /\ AfterTask(taskDown)
            /\ UNCHANGED upstream
    /\ UNCHANGED <<requests, fallback, rw, connOut, str, dialed, seenApplied>>
    /\ UNCHANGED <<toClient, fromUpstream, taskDown>>
    /\ UNCHANGED <<fetchVars, chanBuf, regVars, halted, histVars>>

\* proxy.go:19-21: the client's end-of-stream ends the copy, and the deferred
\* connIn.Close() runs.
CopyUpEnd ==
    /\ Running /\ taskUp = "run"
    /\ taskUp' = "done"
    /\ connInClosed' = TRUE
    /\ AfterTask(taskDown)
    /\ UNCHANGED <<requests, fallback, rw, connOut, str, upstream, dialed, seenApplied>>
    /\ UNCHANGED <<toClient, fromClient, fromUpstream, taskDown>>
    /\ UNCHANGED <<fetchVars, chanBuf, regVars, halted, histVars>>

\* proxy.go:24, io.Copy(connIn, connOut): one byte read from the upstream and
\* written to the client; a write to a closed connIn ends the copy, and the
\* deferred connOut.Close() runs.
CopyDown ==
    /\ Running /\ taskDown = "run"
    /\ fromUpstream < MaxBytes
    /\ fromUpstream' = fromUpstream + 1
    /\ IF ~connInClosed
       THEN /\ toClient' = toClient + 1
            /\ UNCHANGED <<taskDown, connOut, spc, trace>>
       ELSE /\ taskDown' = "done"
            /\ connOut' = [connOut EXCEPT !.state = "closed"]
            /\ AfterTask(taskUp)
            /\ UNCHANGED toClient
    /\ UNCHANGED <<requests, fallback, rw, str, upstream, dialed, seenApplied>>
    /\ UNCHANGED <<fromClient, taskUp, connInClosed>>
    /\ UNCHANGED <<fetchVars, chanBuf, regVars, halted, histVars>>

\* proxy.go:23-25: the upstream's end-of-stream ends the copy, and the deferred
\* connOut.Close() runs.
CopyDownEnd ==
    /\ Running /\ taskDown = "run"
    /\ taskDown' = "done"
    /\ connOut' = [connOut EXCEPT !.state = "closed"]
    /\ AfterTask(taskUp)
    /\ UNCHANGED <<requests, fallback, rw, str, upstream, dialed, seenApplied>>
    /\ UNCHANGED <<toClient, fromClient, fromUpstream, taskUp, connInClosed>>
    /\ UNCHANGED <<fetchVars, chanBuf, regVars, halted, histVars>>

Next ==
    \/ FetchError
    \/ FetchDecoded
    \/ ConfigUpdate
    \/ FetchJitter
    \/ FetchReturn
    \/ UpdateLock
    \/ UpdateMake
    \/ UpdateFill
    \/ UpdateUnlock
    \/ RunLocal
    \/ Accept
    \/ GetFallbackLock
    \/ GetFallbackReturn
    \/ Dial
    \/ Hijack
    \/ Pad
    \/ Forward
    \/ Pipe
    \/ CopyUp
    \/ CopyUpEnd
    \/ CopyDown
    \/ CopyDownEnd

Spec == Init /\ [][Next]_vars

DriverNext == Next \/ CallFetch

DriverSpec == Init /\ [][DriverNext]_vars

\* The goroutines are scheduled fairly, http.Get returns and the sleep ends.
FetchStep == FetchError \/ FetchDecoded \/ FetchJitter \/ FetchReturn
UpdateStep == UpdateLock \/ UpdateMake \/ UpdateFill \/ UpdateUnlock \/ RunLocal
HandlerStep == GetFallbackLock \/ GetFallbackReturn \/ Dial \/ Hijack \/ Pad \/ Forward \/ Pipe
CopyStep == CopyUp \/ CopyUpEnd \/ CopyDown \/ CopyDownEnd

LiveSpec ==
    /\ Init /\ [][Next]_vars
    /\ WF_vars(FetchStep) /\ WF_vars(ConfigUpdate) /\ WF_vars(UpdateStep)
    /\ WF_vars(HandlerStep) /\ WF_vars(CopyStep)

\* ------------------------------------------------------------------- claims
PastSelect == spc \notin {"Idle", "Selecting"}

\* A document one of whose certificates parseCert refuses.
HasBadCert(doc) ==
    \E i \in 1..Len(doc.Fallbacks) :
        /\ ~doc.Fallbacks[i].nil
        /\ parseCert(doc.Fallbacks[i].Cert).err # "nil"
BadCertSerials == {d.SerialNo : d \in {x \in Docs : HasBadCert(x)}}
BadCertIps == UNION {{d.Fallbacks[i].Ip : i \in {j \in 1..Len(d.Fallbacks) : ~d.Fallbacks[j].nil}} :
                     d \in {x \in Docs : HasBadCert(x)}}

\* The entry fb is the whole of the document entry e: address, token,
\* certificate and a tls configuration that trusts that certificate alone.
IsEntryOf(fb, e) ==
    /\ fb.Ip = e.Ip /\ fb.Port = e.Port /\ fb.AuthToken = e.AuthToken
    /\ fb.X509Cert = e.X509Cert
    /\ fb.tlsConfig = [nil |-> FALSE, RootCAs |-> {e.X509Cert}, InsecureSkipVerify |-> TRUE]

\* C1: after every poll iteration and its sleep another fetch of the
\* configuration URL is eventually started, as long as the process runs.
C1_PollsForever == [](fpc = "sleep" => <>(fpc = "get" \/ halted # "no"))
\* The fetch goroutine has returned, and nothing starts another.
C1_Witness == fpc = "returned" /\ halted = "no"

\* C2: a fetched document with a certificate that does not parse is never sent
\* on ConfigUpdate, never given to doUpdateFallbacks and leaves no entry in the
\* registry, which goes on holding the set applied last.
C2_BadCertDocumentDropped ==
    /\ \A i \in 1..Len(published) : published[i].SerialNo \notin BadCertSerials
    /\ \A i \in 1..Len(chanBuf) : chanBuf[i].SerialNo \notin BadCertSerials
    /\ \A i \in 1..Len(applied) : applied[i].SerialNo \notin BadCertSerials
    /\ cconfig.SerialNo \notin BadCertSerials
    /\ \A i \in 1..Len(fallbacks) : fallbacks[i].Ip \notin BadCertIps
    /\ (fallbacksMutex # "doUpdateFallbacks" /\ applied # <<>>) =>
          LET last == applied[Len(applied)] IN
          /\ Len(fallbacks) = Len(last.Fallbacks)
          /\ \A i \in 1..Len(fallbacks) : IsEntryOf(fallbacks[i], last.Fallbacks[i])
    /\ (fallbacksMutex # "doUpdateFallbacks" /\ applied = <<>>) => fallbacks = <<>>
\* A poll that dropped such a document while the registry held an applied set.
C2_Witness ==
    /\ fpc \in {"jitter", "sleep", "returned"}
    /\ config.SerialNo \in BadCertSerials
    /\ Len(applied) >= 1 /\ Len(fallbacks) >= 1
    /\ fallbacksMutex = "free"

\* C3: getFallback returns entry 0 (ip, port, auth token) of the document
\* applied last, however many applies and selects came before.
C3_SelectsFirstOfLastApplied ==
    /\ PastSelect =>
          /\ seenApplied >= 1
          /\ LET d == applied[seenApplied] IN
             /\ Len(d.Fallbacks) >= 1
             /\ fallback.Ip = d.Fallbacks[1].Ip
             /\ fallback.Port = d.Fallbacks[1].Port
             /\ fallback.AuthToken = d.Fallbacks[1].AuthToken
    /\ (fallbacksMutex # "doUpdateFallbacks" /\ applied # <<>>
            /\ Len(applied[Len(applied)].Fallbacks) >= 1) =>
          LET e == applied[Len(applied)].Fallbacks[1]
              r == getFallback(fallbacks) IN
          /\ ~r.fatal
          /\ r.fallback.Ip = e.Ip /\ r.fallback.Port = e.Port
          /\ r.fallback.AuthToken = e.AuthToken
\* The second request selects after a second apply, of a two-entry document.
C3_Witness ==
    /\ requests = 2 /\ spc = "Dialing" /\ seenApplied = 2
    /\ Len(applied[2].Fallbacks) = 2
    /\ applied[1] # applied[2]

\* C4: a failed tls.Dial ends the session with a 502 whose body names the
\* request URL and the reason, the connection not hijacked, nothing written
\* upstream and one dial only.
C4_DialFailure ==
    (spc = "Failed" /\ trace = <<"Selecting", "Dialing", "Failed">>) =>
       /\ rw.status = 502
       /\ Len(rw.body) = 4
       /\ rw.body[2] = ReqURL(requests)
       /\ rw.body[4] = "Unable to open socket to upstream proxy"
       /\ ~rw.hijacked
       /\ upstream = <<>>
       /\ Len(dialed) = 1
       /\ connOut.state = "none"
C4_Witness == spc = "Failed" /\ trace = <<"Selecting", "Dialing", "Failed">>

SessionOrder == <<"Selecting", "Dialing", "Hijacking", "Padding", "Forwarding", "Piping", "Closed">>

\* C5: a session goes through Selecting, Dialing, Hijacking, Padding,
\* Forwarding, Piping, Closed in that order, and one that fails before Piping
\* has answered the client 502 and written nothing upstream.
C5_FailedSessionAnswers502 ==
    /\ \/ trace = SubSeq(SessionOrder, 1, Len(trace))
       \/ /\ Len(trace) \in 2..6
          /\ trace = Append(SubSeq(SessionOrder, 1, Len(trace) - 1), "Failed")
    /\ spc = "Failed" => (rw.status = 502 /\ upstream = <<>>)
\* The padding failed after the hijack had succeeded.
C5_Witness ==
    /\ spc = "Failed"
    /\ trace = <<"Selecting", "Dialing", "Hijacking", "Padding", "Failed">>

\* C6: getFallback on an empty registry ends the process with its diagnostic;
\* no session goes on with a zero Fallback or with an entry of an empty set.
C6_EmptyRegistryIsFatal ==
    /\ PastSelect =>
          /\ fallback # ZeroFallback
          /\ fallback.Ip # "" /\ ~fallback.tlsConfig.nil
          /\ seenApplied >= 1
          /\ Len(applied[seenApplied].Fallbacks) >= 1
    /\ halted = "fatal: No fallback configured!" =>
          (spc = "Selecting" /\ fallbacks = <<>> /\ fallbacksMutex = "getFallback")
\* The process ended in getFallback after an empty document replaced a set.
C6_Witness ==
    /\ halted = "fatal: No fallback configured!"
    /\ Len(applied) = 2 /\ Len(applied[1].Fallbacks) >= 1

\* C7: what getFallback returns is the whole first entry of the set applied
\* before it ran or of the set being applied while it ran; outside
\* doUpdateFallbacks's critical section the registry holds no zero entry.
C7_NoPartialSet ==
    /\ PastSelect =>
          \E k \in {seenApplied, seenApplied + 1} :
              /\ k \in 1..Len(published)
              /\ Len(published[k].Fallbacks) >= 1
              /\ IsEntryOf(fallback, published[k].Fallbacks[1])
              /\ fallback.Ip # "" /\ fallback.AuthToken # ""
    /\ fallbacksMutex # "doUpdateFallbacks" =>
          \A i \in 1..Len(fallbacks) : fallbacks[i] # ZeroFallback
\* getFallback waits for the mutex while the new set is still half built.
C7_Witness ==
    /\ spc = "Selecting" /\ fallbacksMutex = "doUpdateFallbacks"
    /\ cpc = "fill" /\ ci = 2 /\ Len(fallbacks) = 2
    /\ fallbacks[1] # ZeroFallback /\ fallbacks[2] = ZeroFallback
    /\ Len(applied) >= 1

\* doUpdateFallbacks has received a document and not yet returned.
Receiving == cpc \in {"lock", "make", "fill"}

\* C8: a send on ConfigUpdate completes only with its receive, documents are
\* applied in the order published, and a second send does not complete before
\* the apply of the first has finished.
C8_Rendezvous ==
    /\ chanBuf = <<>>
    /\ Len(published) = Len(applied) + (IF Receiving THEN 1 ELSE 0)
    /\ Len(published) <= Len(applied) + 1
    /\ applied = SubSeq(published, 1, Len(applied))
    /\ Receiving => cconfig = published[Len(published)]
\* fetch is blocked in its second send while the first document is applied.
C8_Witness ==
    /\ fpc = "send" /\ Receiving
    /\ Len(published) = 1 /\ applied = <<>>
    /\ config # published[1]

\* C9: the address dialled, the tls configuration used and the auth token
\* forwarded are those of the entry getFallback returned to the session,
\* whatever doUpdateFallbacks has done to the registry since.
C9_SnapshotFallback ==
    /\ PastSelect =>
          /\ seenApplied >= 1 /\ Len(applied[seenApplied].Fallbacks) >= 1
          /\ IsEntryOf(fallback, applied[seenApplied].Fallbacks[1])
    /\ \A i \in 1..Len(dialed) :
          /\ dialed[i][1] = <<fallback.Ip, ":", fallback.Port>>
          /\ dialed[i][2] = fallback.tlsConfig
    /\ connOut.state # "none" =>
          /\ connOut.addr = <<fallback.Ip, ":", fallback.Port>>
          /\ connOut.tlsConfig = fallback.tlsConfig
    /\ upstream # <<>> =>
          /\ <<x_lantern_auth_token, fallback.AuthToken>> \in upstream[1].req.Header
          /\ \A kv \in upstream[1].req.Header :
                kv[1] = x_lantern_auth_token => kv[2] = fallback.AuthToken
\* The request was forwarded with the session's token while the registry
\* already held another document's set.
C9_Witness ==
    /\ spc = "Piping" /\ upstream # <<>>
    /\ Len(applied) > seenApplied
    /\ fallbacksMutex = "free" /\ Len(fallbacks) >= 1
    /\ fallbacks[1].AuthToken # fallback.AuthToken
    /\ fallbacks[1].Ip # fallback.Ip

C11_IntervalWithinBounds ==
    fpc = "sleep" =>
       /\ minPoll < maxPoll
       /\ interval \in Int
       /\ minPoll <= interval /\ interval < maxPoll
\* The longest sleep the bounds of a fetched document allow.
C11_Witness == fpc = "sleep" /\ minPoll = 2 /\ maxPoll = 4 /\ interval = 3

\* What a caller can see of a registry: its entries' address and token, and
\* what getFallback answers.
Observable(fbs) ==
    [entries |-> [i \in 1..Len(fbs) |->
                    [Ip |-> fbs[i].Ip, Port |-> fbs[i].Port, AuthToken |-> fbs[i].AuthToken]],
     fatal |-> getFallback(fbs).fatal,
     first |-> LET fb == getFallback(fbs).fallback IN
               [Ip |-> fb.Ip, Port |-> fb.Port, AuthToken |-> fb.AuthToken]]

\* C12: doUpdateFallbacks run a second time with the identical document leaves
\* the registry as the first run left it: as many entries, the same ip, port
\* and auth token at every index, the same answer from getFallback.
C12_ApplyIdempotent ==
    (/\ fallbacksMutex # "doUpdateFallbacks"
     /\ Len(applied) >= 2
     /\ applied[Len(applied)] = applied[Len(applied) - 1]) =>
       /\ Len(fallbacks) = Len(regBefore)
       /\ Observable(fallbacks) = Observable(regBefore)
\* The same two-entry document has been applied twice.
C12_Witness ==
    /\ cpc = "recv" /\ fallbacksMutex = "free"
    /\ Len(applied) = 2 /\ applied[1] = applied[2]
    /\ Len(applied[2].Fallbacks) = 2 /\ Len(fallbacks) = 2

\* The poll iteration is past its fetch and publication.
IterationOver == fpc \in {"jitter", "sleep", "returned"}

\* C13: a document rejected for a certificate that does not parse leaves
\* minPoll and maxPoll as they were when the iteration began.
C13_RejectedKeepsBounds ==
    (IterationOver /\ HasBadCert(config)) =>
       /\ minPoll = iterStart.minPoll
       /\ maxPoll = iterStart.maxPoll
\* The first poll dropped a document with a bad certificate, and the bounds
\* are the document's.
C13_Witness ==
    /\ calls = 1 /\ fpc = "sleep" /\ HasBadCert(config)
    /\ published = <<>>
    /\ minPoll = config.MinPoll /\ maxPoll = config.MaxPoll
    /\ minPoll # InitMinPoll /\ maxPoll # InitMaxPoll

\* The ways the process ends that are not fetch's doing: getFallback on an
\* empty registry (local.go:95) and a listener that cannot start (local.go:115).
ProxyFatals == {"fatal: No fallback configured!", "fatal: Unable to start local proxy"}

\* C14: fetch ends the process only when the random source fails; nothing a
\* decoded document holds makes it crash.
C14_OnlyRandomFailureIsFatal ==
    halted \in {"no", "fatal: Unable to update poll interval"} \cup ProxyFatals
\* A published document with minpoll = maxpoll made rand.Int panic.
C14_Witness ==
    /\ halted = "panic: crypto/rand: argument to Int is <= 0"
    /\ fpc = "jitter" /\ config.SerialNo = 6
    /\ Len(published) = 1 /\ minPoll = maxPoll

\* C15: in every state 0 < minPoll < maxPoll.
C15_BoundsPositiveAndOrdered == 0 < minPoll /\ minPoll < maxPoll
\* The process has published a document with minpoll = maxpoll and runs with
\* its bounds.
C15_Witness ==
    /\ halted = "no" /\ fpc = "jitter" /\ Len(published) = 1
    /\ minPoll = config.MinPoll /\ maxPoll = config.MaxPoll
    /\ minPoll = 3 /\ maxPoll = 3

\* The registry as doUpdateFallbacks builds it from a document.
RegistryOf(doc) == [i \in 1..Len(doc.Fallbacks) |-> Fallback(doc.Fallbacks[i])]

\* C16: a poll that fails in transport or in JSON parsing (config is still the
\* zero S3Config) sends nothing on ConfigUpdate and leaves minPoll and maxPoll
\* as the iteration found them; the registry holds, or is being given, only a
\* document published before the iteration began, and is empty if none was.
C16_FailedPollChangesNothing ==
    (IterationOver /\ config = ZeroS3Config) =>
       /\ minPoll = iterStart.minPoll
       /\ maxPoll = iterStart.maxPoll
       /\ Len(published) = iterStart.published
       /\ chanBuf = <<>>
       /\ Len(applied) <= iterStart.published
       /\ Receiving => cconfig = published[iterStart.published]
       /\ (fallbacksMutex # "doUpdateFallbacks" /\ applied # <<>>) =>
             fallbacks = RegistryOf(published[Len(applied)])
       /\ iterStart.published = 0 => (fallbacks = <<>> /\ applied = <<>> /\ ~Receiving)
\* The second poll failed: the bounds and the registry are those of the
\* document the first poll published.
C16_Witness ==
    /\ calls = 2 /\ fpc = "sleep" /\ config = ZeroS3Config
    /\ Len(published) = 1 /\ applied = published
    /\ minPoll = published[1].MinPoll /\ maxPoll = published[1].MaxPoll
    /\ minPoll # InitMinPoll
    /\ Len(fallbacks) = 2 /\ fallbacksMutex = "free"

\* C17: a copy task that is over has closed the connection it wrote to and
\* not the one it read from: client-to-upstream closes connOut and leaves
\* connIn open, upstream-to-client closes connIn and leaves connOut open.
C17_TaskClosesDestinationOnly ==
    /\ (taskUp = "done" /\ taskDown = "run") =>
          (connOut.state = "closed" /\ ~connInClosed)
    /\ (taskDown = "done" /\ taskUp = "run") =>
          (connInClosed /\ connOut.state = "open")
\* The client-to-upstream copy ended at the client's end-of-stream and closed
\* connIn, the connection it read from; connOut is open.
C17_Witness ==
    /\ spc = "Piping" /\ taskUp = "done" /\ taskDown = "run"
    /\ connInClosed /\ connOut.state = "open"

\* C18: every byte read from the upstream is written to the client, also
\* after the client-to-upstream copy has ended at the client's end-of-stream;
\* the session is closed only when both copies are over.
C18_DirectionsIndependent ==
    /\ toClient = fromUpstream
    /\ spc = "Closed" => (taskUp = "done" /\ taskDown = "done")
\* The client's end-of-stream came first, and the byte the upstream sent
\* after it was read and not delivered.
C18_Witness ==
    /\ taskUp = "done" /\ connInClosed
    /\ fromClient = 0 /\ Len(upstream) = 1
    /\ fromUpstream = 1 /\ toClient = 0

\* C19: the listener is started only after the first document was received
\* and applied, so every request is accepted, and every getFallback runs,
\* after the first apply; as long as nothing is published StartLocal is still
\* in its first doUpdateFallbacks and no request is accepted.
C19_ListenAfterFirstApply ==
    /\ listener # "none" => Len(applied) >= 1
    /\ (requests > 0 \/ spc # "Idle" \/ fallbacksMutex = "getFallback") =>
          (listener = "up" /\ Len(applied) >= 1)
    /\ PastSelect => seenApplied >= 1
    /\ published = <<>> =>
          /\ listener = "none" /\ cpc = "recv" /\ applied = <<>>
          /\ requests = 0 /\ spc = "Idle"
\* Both polls are over and neither published a document: StartLocal still
\* waits in its first receive and there is no listener.
C19_Witness ==
    /\ halted = "no" /\ calls = 2 /\ fpc = "returned"
    /\ published = <<>> /\ HasBadCert(config)
    /\ cpc = "recv" /\ listener = "none" /\ requests = 0

\* C20: when the handler returns on a failure after tls.Dial succeeded, connOut
\* is closed, and so is the client connection if it was hijacked.
C20_FailureClosesConnections ==
    (spc = "Failed" /\ connOut.state # "none") =>
       /\ connOut.state = "closed"
       /\ rw.hijacked => connInClosed
\* The padding failed: the handler returned with connOut and the hijacked
\* client connection open.
C20_Witness ==
    /\ spc = "Failed"
    /\ trace = <<"Selecting", "Dialing", "Hijacking", "Padding", "Failed">>
    /\ connOut.state = "open" /\ rw.hijacked /\ ~connInClosed

====
